---- MODULE Spec2Model ----
(***************************************************************************)
(* Model of the YouTube extraction subsystem of gobalt                      *)
(* (src/feature_playlist.go): the signature decryptor and its cache,        *)
(* the player-data resolver getVideo with its retry loop, and the pure      *)
(* helpers they use.                                                        *)
(*                                                                          *)
(* Go strings are modelled as sequences of tokens: a token is either a      *)
(* separator character ("/", ".", ";", ":", "(", ")", "\n", "&", "=")       *)
(* or a maximal run of text between separators.  The string functions of    *)
(* the Go library are modelled on these sequences by what they compute.     *)
(***************************************************************************)
EXTENDS Integers, Sequences, FiniteSets, TLC

\* ------------------------------------------------------------------------
\* Bounds of the model (not program constants)
\* ------------------------------------------------------------------------
MaxCalls == 2
MaxServerUpdates == 1
MaxFormats == 3
MaxBitrate == 2
MaxDecrCalls == 2
MaxOps == 2
MaxStrLen == 3
MaxIndex == 3
MaxPage == 2
MaxItems == 3
MaxSugg == 2
MaxUrlLen == 8

\* ------------------------------------------------------------------------
\* Library string functions on token sequences
\* ------------------------------------------------------------------------
HasPrefix(s, pre) ==
    /\ Len(s) >= Len(pre)
    /\ SubSeq(s, 1, Len(pre)) = pre

HasSuffix(s, suf) ==
    /\ Len(s) >= Len(suf)
    /\ SubSeq(s, Len(s) - Len(suf) + 1, Len(s)) = suf

TrimPrefix(s, pre) ==
    IF HasPrefix(s, pre) THEN SubSeq(s, Len(pre) + 1, Len(s)) ELSE s

TrimSuffix(s, suf) ==
    IF HasSuffix(s, suf) THEN SubSeq(s, 1, Len(s) - Len(suf)) ELSE s

\* strings.Index for a one-token separator: 0 when absent (Go: -1)
Index(s, sep) ==
    IF \E i \in 1..Len(s) : s[i] = sep
    THEN CHOOSE i \in 1..Len(s) : s[i] = sep /\ \A j \in 1..(i - 1) : s[j] # sep
    ELSE 0

\* strings.SplitN(s, sep, 2)
SplitN2(s, sep) ==
    LET i == Index(s, sep)
    IN  IF i = 0 THEN <<s>>
        ELSE <<SubSeq(s, 1, i - 1), SubSeq(s, i + 1, Len(s))>>

\* strings.Split(s, sep)
RECURSIVE Split(_, _)
Split(s, sep) ==
    LET i == Index(s, sep)
    IN  IF i = 0 THEN <<s>>
        ELSE <<SubSeq(s, 1, i - 1)>> \o Split(SubSeq(s, i + 1, Len(s)), sep)

\* strconv.Atoi on a token sequence: only a single decimal token parses
Digits == {"0", "1", "2", "3"}

AtoiOk(s) == Len(s) = 1 /\ s[1] \in Digits

AtoiVal(s) ==
    CASE s[1] = "0" -> 0
      [] s[1] = "1" -> 1
      [] s[1] = "2" -> 2
      [] s[1] = "3" -> 3

\* Go's % truncates toward zero
GoMod(a, n) == IF a >= 0 THEN a % n ELSE 0 - ((0 - a) % n)

Nil == "nil"

\* ------------------------------------------------------------------------
\* Errors (src/feature_playlist.go:22-31)
\* ------------------------------------------------------------------------
ErrNoSuitableFormat == "ErrNoSuitableFormat"
ErrGettingUrlFromSignatureCipher == "ErrGettingUrlFromSignatureCipher"
ErrDecryptFunctionBroken == "ErrDecryptFunctionBroken"
ErrMalformedJson == "ErrMalformedJson"
ErrDecryptGettingFunctionName == "ErrDecryptGettingFunctionName"
ErrDecryptGettingFunction == "ErrDecryptGettingFunction"
ErrDecryptGettingOpTable == "ErrDecryptGettingOpTable"
ErrGettingBaseJs == "ErrGettingBaseJs"
\* errors produced by the libraries the code calls
ErrNet == "ErrNet"
ErrJson == "ErrJson"
ErrAtoi == "ErrAtoi"

\* ------------------------------------------------------------------------
\* The three primitive operations (closures built in getDecryptOps)
\* A result is [ok, s]; ok = FALSE is a run-time panic of the Go code.
\* ------------------------------------------------------------------------
Fault == [ok |-> FALSE, s |-> <<>>]

RECURSIVE Reverse(_)
Reverse(a) ==
    IF a = <<>> THEN <<>> ELSE Reverse(Tail(a)) \o <<Head(a)>>

opReverse(a, b) == [ok |-> TRUE, s |-> Reverse(a)]

opSwap_oneWay(a, b) ==
    IF Len(a) = 0 THEN Fault
    ELSE [ok |-> TRUE,
          s |-> [k \in 1..Len(a) |->
                   IF k = 1 THEN a[GoMod(b, Len(a)) + 1] ELSE a[k]]]

opSwap(a, b) ==
    IF Len(a) = 0 THEN Fault
    ELSE LET i == GoMod(b, Len(a))
         IN  IF i < 0 THEN Fault
             ELSE [ok |-> TRUE,
                   s |-> [k \in 1..Len(a) |->
                            IF k = 1 THEN a[i + 1]
                            ELSE IF k = i + 1 THEN a[1]
                            ELSE a[k]]]

opSplice(a, b) ==
    IF b < 0 \/ b > Len(a) THEN Fault
    ELSE [ok |-> TRUE, s |-> SubSeq(a, b + 1, Len(a))]

ApplyOp(op, a) ==
    CASE op.fn = "reverse" -> opReverse(a, op.arg)
      [] op.fn = "swap"    -> opSwap(a, op.arg)
      [] op.fn = "splice"  -> opSplice(a, op.arg)

RECURSIVE ApplyOps_lastFirst(_, _)
ApplyOps_lastFirst(ops, a) ==
    IF ops = <<>> THEN [ok |-> TRUE, s |-> a]
    ELSE LET r == ApplyOp(ops[Len(ops)], a)
         IN  IF r.ok THEN ApplyOps_lastFirst(SubSeq(ops, 1, Len(ops) - 1), r.s)
             ELSE Fault

\* the loop of decrypt: every op in list order on the running string
RECURSIVE ApplyOps(_, _)
ApplyOps(ops, a) ==
    IF ops = <<>> THEN [ok |-> TRUE, s |-> a]
    ELSE LET r == ApplyOp(Head(ops), a)
         IN  IF r.ok THEN ApplyOps(Tail(ops), r.s) ELSE Fault

\* ------------------------------------------------------------------------
\* The player bundle (base.js) as the decryptor builder reads it:
\*   nameMatch : decryptFunctionNameRegexp matches
\*   hasBody   : `<fnName>=function(a){a=a.split("");` ... `;return a.join("")};`
\*               is present
\*   decrFn    : the text between those two markers
\*   objName   : the name X of the one `var X={` ... `};` literal in the bundle
\*               (<<>> when there is none)
\*   table     : the text between `var X={` and `};`
\* ------------------------------------------------------------------------
ReversePat == "function(a){a.reverse()}"
SwapPat == "function(a,b){var c=a[0];a[0]=a[b%a.length];a[b%a.length]=c}"
SplicePat == "function(a,b){a.splice(0,b)}"

getDecryptFunction(baseJs) ==
    IF ~baseJs.nameMatch THEN [err |-> ErrDecryptGettingFunctionName, fn |-> <<>>]
    ELSE IF ~baseJs.hasBody THEN [err |-> ErrDecryptGettingFunction, fn |-> <<>>]
    ELSE [err |-> Nil, fn |-> baseJs.decrFn]

\* the switch of the op-table loop: which closure a helper body selects
\* ("none": no case matches and nothing is stored)
HelperKind(fn) ==
    CASE HasPrefix(fn, <<ReversePat>>) -> "reverse"
      [] HasPrefix(fn, <<SwapPat>>)    -> "swap"
      [] HasPrefix(fn, <<SplicePat>>)  -> "splice"
      [] OTHER                         -> "none"

\* the lines of the helper object all split in two at ":"
LinesWellFormed(lns) ==
    \A i \in 1..Len(lns) : Len(Split(lns[i], ":")) = 2

\* opTable after the loop over the lines: name -> closure, a later line
\* overwriting an earlier one of the same name
OpTableNames(lns) ==
    {Split(lns[i], ":")[1] : i \in {j \in 1..Len(lns) :
                                      HelperKind(Split(lns[j], ":")[2]) # "none"}}

OpTableAt(lns, name) ==
    LET hits == {j \in 1..Len(lns) :
                   /\ Split(lns[j], ":")[1] = name
                   /\ HelperKind(Split(lns[j], ":")[2]) # "none"}
        last == CHOOSE j \in hits : \A k \in hits : k <= j
    IN  HelperKind(Split(lns[last], ":")[2])

ParseCall_defaultsArg(fn, lns) ==
    LET sp1 == SplitN2(fn, ".")
    IN  IF Len(sp1) # 2 THEN [err |-> ErrDecryptGettingOpTable]
        ELSE LET sp2 == SplitN2(sp1[2], "(")
             IN  IF Len(sp2) # 2 THEN [err |-> ErrDecryptGettingOpTable]
                 ELSE LET name == sp2[1]
                          argS == TrimSuffix(TrimPrefix(sp2[2], <<"a,">>), <<")">>)
                      IN  IF name \notin OpTableNames(lns)
                               THEN [err |-> ErrDecryptGettingOpTable]
                          ELSE [err |-> Nil,
                                op |-> [fn |-> OpTableAt(lns, name),
                                        arg |-> IF AtoiOk(argS) THEN AtoiVal(argS) ELSE 0]]

\* one call of the entry-point function: [err, op]
ParseCall(fn, lns) ==
    LET sp1 == SplitN2(fn, ".")
    IN  IF Len(sp1) # 2 THEN [err |-> ErrDecryptGettingOpTable]
        ELSE LET sp2 == SplitN2(sp1[2], "(")
             IN  IF Len(sp2) # 2 THEN [err |-> ErrDecryptGettingOpTable]
                 ELSE LET name == sp2[1]
                          argS == TrimSuffix(TrimPrefix(sp2[2], <<"a,">>), <<")">>)
                      IN  IF ~AtoiOk(argS) THEN [err |-> ErrDecryptGettingOpTable]
                          ELSE IF name \notin OpTableNames(lns)
                               THEN [err |-> ErrDecryptGettingOpTable]
                          ELSE [err |-> Nil,
                                op |-> [fn |-> OpTableAt(lns, name),
                                        arg |-> AtoiVal(argS)]]

\* the final loop of getDecryptOps over the ";"-separated calls
RECURSIVE ParseCalls(_, _)
ParseCalls(calls, lns) ==
    IF calls = <<>> THEN [err |-> Nil, ops |-> <<>>]
    ELSE LET c == ParseCall(Head(calls), lns)
         IN  IF c.err # Nil THEN [err |-> c.err, ops |-> <<>>]
             ELSE LET rest == ParseCalls(Tail(calls), lns)
                  IN  IF rest.err # Nil THEN rest
                      ELSE [err |-> Nil, ops |-> <<c.op>> \o rest.ops]

getDecryptOps(baseJs) ==
    LET f == getDecryptFunction(baseJs)
    IN  IF f.err # Nil THEN [err |-> f.err, ops |-> <<>>]
        ELSE LET sp == SplitN2(f.fn, ".")
             IN  IF Len(sp) # 2 THEN [err |-> ErrDecryptGettingOpTable, ops |-> <<>>]
                 ELSE IF baseJs.objName # sp[1]
                      THEN [err |-> ErrDecryptGettingOpTable, ops |-> <<>>]
                 ELSE LET lns == Split(baseJs.table, "\n")
                      IN  IF Len(lns) # 3
                          THEN [err |-> ErrDecryptGettingOpTable, ops |-> <<>>]
                          ELSE IF ~LinesWellFormed(lns)
                          THEN [err |-> ErrDecryptGettingOpTable, ops |-> <<>>]
                          ELSE ParseCalls(Split(f.fn, ";"), lns)

\* ------------------------------------------------------------------------
\* What the servers can answer
\* ------------------------------------------------------------------------
Versions == {"v1", "v2"}

Host == <<"https:", "/", "/", "www.youtube.com">>
PlayerPrefix == <<"/", "s", "/", "player", "/">>

\* data.PlayerJsUrl as the homepage serves it for bundle version v
PlayerJsUrl(v) == PlayerPrefix \o <<v, "/", "base.js">>

Call(obj, name, arg) == <<obj, ".", name, "(", "a,", arg, ")">>
Line(name, body) == <<name, ":", body, ",">>

GoodTable ==
    Line("ab", ReversePat) \o <<"\n">> \o Line("cd", SwapPat) \o <<"\n">>
        \o Line("ef", SplicePat)

\* the bundle published for a version
BundleOf(v) ==
    [nameMatch |-> TRUE, hasBody |-> TRUE, objName |-> <<"Xy">>,
     table |-> GoodTable,
     decrFn |-> IF v = "v1"
                THEN Call("Xy", "cd", "1") \o <<";">> \o Call("Xy", "ab", "2")
                ELSE Call("Xy", "ef", "1") \o <<";">> \o Call("Xy", "cd", "1")]

\* a bundle whose structure the builder no longer recognises
BrokenJs ==
    [nameMatch |-> FALSE, hasBody |-> FALSE, objName |-> <<>>,
     table |-> <<>>, decrFn |-> <<>>]

\* the bundle stored at a URL (the version is the segment after /s/player/)
BundleAt(url) ==
    IF Len(url) = Len(Host) + Len(PlayerPrefix) + 3
    THEN BundleOf(url[Len(Host) + Len(PlayerPrefix) + 1])
    ELSE BrokenJs

\* outcomes of scanning the homepage scripts (GetHTMLScriptFunc + callback)
HomeOutcomes == {"neterr", "noscript", "noend", "badjson", "ok"}

\* outcomes of http.Get(url) for the bundle
BundleOutcomes ==
    {[err |-> TRUE, code |-> 0, read |-> FALSE, broken |-> FALSE],
     [err |-> FALSE, code |-> 404, read |-> TRUE, broken |-> FALSE],
     [err |-> FALSE, code |-> 200, read |-> FALSE, broken |-> FALSE],
     [err |-> FALSE, code |-> 200, read |-> TRUE, broken |-> TRUE],
     [err |-> FALSE, code |-> 200, read |-> TRUE, broken |-> FALSE]}

\* outcomes of the reachability probe http.Get(strmUrl)
ProbeOutcomes ==
    {[err |-> TRUE, code |-> 0],
     [err |-> FALSE, code |-> 200],
     [err |-> FALSE, code |-> 206],
     [err |-> FALSE, code |-> 403]}

\* signatures handed to decrypt
Sigs == {<<"a", "b", "c">>, <<"x", "y">>}

\* ------------------------------------------------------------------------
\* Player data (ytInitialPlayerResponse) and the signature cipher
\* ------------------------------------------------------------------------
AudioPrefix_any == <<>>

AudioPrefix == <<"audio/">>

Format(mime, br, url, cipher) ==
    [MimeType |-> mime, Bitrate |-> br, Url |-> url, SignatureCipher |-> cipher]

\* a signature-cipher query string s=<sig>&sp=<sp>&url=<base>
Cipher(sig, spn, base) ==
    <<"s", "=">> \o sig \o <<"&", "sp", "=", spn, "&", "url", "=">> \o base

BadEscape == "%zz"

ParseQuery_lenient(q) ==
    [err |-> Nil,
     pairs |-> IF q = <<>> THEN <<>>
               ELSE [i \in 1..Len(Split(q, "&")) |-> SplitN2(Split(q, "&")[i], "=")]]

\* url.ParseQuery: [err, pairs]; an invalid escape is the parse error
ParseQuery(q) ==
    IF \E i \in 1..Len(q) : q[i] = BadEscape
    THEN [err |-> ErrGettingUrlFromSignatureCipher, pairs |-> <<>>]
    ELSE [err |-> Nil,
          pairs |-> IF q = <<>> THEN <<>>
                    ELSE [i \in 1..Len(Split(q, "&")) |->
                            SplitN2(Split(q, "&")[i], "=")]]

\* url.Values.Get: the first value of the key, "" when absent
QueryGet(pairs, key) ==
    IF \E i \in 1..Len(pairs) : pairs[i][1] = <<key>>
    THEN LET i == CHOOSE k \in 1..Len(pairs) :
                    /\ pairs[k][1] = <<key>>
                    /\ \A j \in 1..(k - 1) : pairs[j][1] # <<key>>
         IN  IF Len(pairs[i]) = 2 THEN pairs[i][2] ELSE <<>>
    ELSE <<>>

\* the comparison of the selection loop
HigherBitrate_ge(f, cur) == f.Bitrate >= cur.Bitrate

HigherBitrate(f, cur) == f.Bitrate > cur.Bitrate

\* the selection loop of try(): index of the chosen format, 0 for none
\* (Go: -1)
RECURSIVE MaxBrLoop(_, _, _)
MaxBrLoop(fs, i, maxBr) ==
    IF i > Len(fs) THEN maxBr
    ELSE IF /\ HasPrefix(fs[i].MimeType, AudioPrefix)
            /\ (maxBr = 0 \/ HigherBitrate(fs[i], fs[maxBr]))
         THEN MaxBrLoop(fs, i + 1, i)
         ELSE MaxBrLoop(fs, i + 1, maxBr)

SelectMaxBr(fs) == MaxBrLoop(fs, 1, 0)

BaseUrl == <<"https://cdn/playback?id=1">>
DirectUrl == <<"https://cdn/direct">>
VideoOnlyUrl == <<"https://cdn/video">>

MimeAudioMp4 == <<"audio/", "mp4">>
MimeAudioWebm == <<"audio/", "webm">>
MimeVideoMp4 == <<"video/", "mp4">>

PlayerData(fs, len, exp) ==
    [AdaptiveFormats |-> fs, LengthSeconds |-> len, ExpiresInSeconds |-> exp]

\* the player responses the video page can carry
Pages ==
    {PlayerData(<<Format(MimeAudioMp4, 2, DirectUrl, <<>>),
                  Format(MimeVideoMp4, 3, VideoOnlyUrl, <<>>)>>, <<"3">>, <<"2">>),
     PlayerData(<<Format(MimeAudioMp4, 1, DirectUrl, <<>>),
                  Format(MimeAudioWebm, 2, <<>>,
                         Cipher(<<"a", "b", "c">>, "sig", BaseUrl))>>,
                <<"x">>, <<"2">>),
     PlayerData(<<Format(MimeAudioWebm, 2, <<>>,
                         Cipher(<<"x", "y">>, "signature", BaseUrl))>>,
                <<"3">>, <<"2">>),
     PlayerData(<<Format(MimeVideoMp4, 3, VideoOnlyUrl, <<>>)>>, <<"3">>, <<"2">>),
     PlayerData(<<Format(MimeAudioMp4, 2, <<>>, <<"s", "=", BadEscape>>)>>,
                <<"3">>, <<"2">>),
     PlayerData(<<Format(MimeAudioMp4, 2, DirectUrl, <<>>)>>, <<"3">>, <<"soon">>)}

\* outcomes of getJSVar + json.Unmarshal on the video page
PageOutcomes ==
    {[kind |-> "neterr", data |-> PlayerData(<<>>, <<>>, <<>>)],
     [kind |-> "badjson", data |-> PlayerData(<<>>, <<>>, <<>>)]}
        \cup {[kind |-> "ok", data |-> pg] : pg \in Pages}

\* ------------------------------------------------------------------------
\* State
\* ------------------------------------------------------------------------
VARIABLES
    d,          \* the shared decryptor: [versionId, ops]
    homeVer,    \* the bundle version the homepage currently points to
    nUpd,       \* how often the served version has changed
    pc,         \* per caller: where it is in getVideo / decrypt
    loc,        \* per caller: local variables of the running call
    tries,      \* per caller: the loop counter of getVideo
    ret,        \* per caller: what the last finished call returned
    ncalls,     \* per caller: calls started
    hist,       \* per caller: what the running call has done so far
    pub,        \* bundle URLs whose rebuild was published, in order
    verOps,     \* the op list built by the rebuild that stored d.versionId
    baseJsIn,   \* input of a stand-alone getDecryptOps run
    built,      \* its result
    adaptive,   \* input of a stand-alone format selection
    maxBr,      \* its result
    decOps,     \* op list of a stand-alone run of the decrypt loop
    decIn,      \* its input string
    decOut,     \* its result
    plUrl,      \* GetPlaylist: the input pUrl
    plN,        \* number of entries of the playlist the server holds
    plPc,       \* position of the GetPlaylist call
    plListId,   \* listId
    plVidId,    \* vidId
    plIndex,    \* index
    plRes,      \* res, each entry with the index the sidebar reported for it
    plVUrl,     \* the parts of the last vUrl requested
    plNReq,     \* history: number of page requests issued
    plPg,       \* history: length of the last page and what it added
    plAllWin,   \* history: every page so far was a window on the next entry
    plRet,      \* what GetPlaylist returned
    srIn,       \* getSearch: what the results page answers
    srOut,      \* what getSearch returned
    sgIn,       \* getSearchSuggestions: what the endpoint answers
    sgOut,      \* what getSearchSuggestions returned
    rnUrl,      \* Run: opts.Url, a string of characters
    rnApi,      \* the package variable CobaltApi
    rnPc,       \* position of the Run call
    rnReqs,     \* history: the requests Run has sent, in order
    rnInfo,     \* history: how CobaltServerInfo ended
    rnMedia,    \* the response body of the POST as unmarshalled
    rnRet       \* what Run returned

vars == <<d, homeVer, nUpd, pc, loc, tries, ret, ncalls, hist, pub, verOps,
          baseJsIn, built, adaptive, maxBr, decOps, decIn, decOut,
          plUrl, plN, plPc, plListId, plVidId, plIndex, plRes, plVUrl,
          plNReq, plPg, plAllWin, plRet, srIn, srOut, sgIn, sgOut,
          rnUrl, rnApi, rnPc, rnReqs, rnInfo, rnMedia, rnRet>>

rnVars == <<rnUrl, rnApi, rnPc, rnReqs, rnInfo, rnMedia, rnRet>>

auxVars == <<srIn, srOut, sgIn, sgOut, rnVars>>

decVars == <<decOps, decIn, decOut>>

plVars == <<plUrl, plN, plPc, plListId, plVidId, plIndex, plRes, plVUrl,
            plNReq, plPg, plAllWin, plRet>>

pureVars == <<baseJsIn, built, adaptive, maxBr, decVars, plVars, auxVars>>

Procs == {1, 2}
Solo == {1}

MaxTries == 10

NoResp == [err |-> FALSE, code |-> 0, read |-> FALSE, broken |-> FALSE]
NoProbe == [err |-> FALSE, code |-> 0]

LocInit ==
    [caller |-> "none", sig |-> <<>>, spn |-> <<>>, base |-> <<>>,
     page |-> "none", data |-> PlayerData(<<>>, <<>>, <<>>), home |-> "none", url |-> <<>>, verId |-> <<>>,
     shortcut |-> FALSE, seenOps |-> <<>>, forVer |-> <<>>, bresp |-> NoResp,
     newOps |-> <<>>, wrote |-> "none", applied |-> <<>>, resUrl |-> <<>>,
     duration |-> 0]

HistInit ==
    [attempts |-> 0, invalid |-> 0, fetches |-> 0,
     probeUrl |-> <<>>, probeResp |-> NoProbe, probeAt |-> 0]

RetInit == [err |-> Nil, val |-> <<>>]

NotBuilt == [err |-> "pending", ops |-> <<>>]

DecPending == [done |-> FALSE, ok |-> TRUE, s |-> <<>>]

InitDecIdle ==
    /\ decOps = <<>>
    /\ decIn = <<>>
    /\ decOut = DecPending

NoVUrl == [v |-> <<>>, list |-> <<>>, index |-> 0]
NoPage == [len |-> 0, added |-> 0, noRuns |-> FALSE]

NoIn == [o |-> "none"]
NotRun == [done |-> FALSE, err |-> Nil, res |-> <<>>]

NoMedia == [Status |-> "", URL |-> "", Picker |-> <<>>]
NilResponse == [Status |-> "nil", URL |-> "", Text |-> "", URLs |-> <<>>]

InitRunIdle ==
    /\ rnUrl = <<>>
    /\ rnApi = "none"
    /\ rnPc = "idle"
    /\ rnReqs = <<>>
    /\ rnInfo = "none"
    /\ rnMedia = NoMedia
    /\ rnRet = [err |-> Nil, resp |-> NilResponse]

InitAuxIdle ==
    /\ srIn = NoIn
    /\ srOut = NotRun
    /\ sgIn = NoIn
    /\ sgOut = NotRun
    /\ InitRunIdle

InitPlIdle ==
    /\ plUrl = <<>>
    /\ plN = 0
    /\ plPc = "idle"
    /\ plListId = <<>>
    /\ plVidId = <<>>
    /\ plIndex = 0
    /\ plRes = <<>>
    /\ plVUrl = NoVUrl
    /\ plNReq = 0
    /\ plPg = NoPage
    /\ plAllWin = TRUE
    /\ plRet = RetInit

InitShared ==
    /\ d = [versionId |-> <<>>, ops |-> <<>>]
    /\ homeVer \in Versions
    /\ nUpd = 0
    /\ pc = [p \in Procs |-> "idle"]
    /\ loc = [p \in Procs |-> LocInit]
    /\ tries = [p \in Procs |-> 0]
    /\ ret = [p \in Procs |-> RetInit]
    /\ ncalls = [p \in Procs |-> 0]
    /\ hist = [p \in Procs |-> HistInit]
    /\ pub = <<>>
    /\ verOps = <<>>

InitPure ==
    /\ baseJsIn = BrokenJs
    /\ built = NotBuilt
    /\ adaptive = <<>>
    /\ maxBr = -1
    /\ InitDecIdle
    /\ InitPlIdle
    /\ InitAuxIdle

Init == InitShared /\ InitPure

\* a call returns: err and value go to the caller
Finish(p, e, v) ==
    /\ pc' = [pc EXCEPT ![p] = "done"]
    /\ ret' = [ret EXCEPT ![p] = [err |-> e, val |-> v]]

\* the served version changes (a new player bundle is deployed)
ServerUpdate ==
    /\ nUpd < MaxServerUpdates
    /\ \E v \in Versions \ {homeVer} : homeVer' = v
    /\ nUpd' = nUpd + 1
    /\ UNCHANGED <<d, pc, loc, tries, ret, ncalls, hist, pub, verOps, pureVars>>

\* ------------------------------------------------------------------------
\* updateDecryptor
\* ------------------------------------------------------------------------
\* GetHTMLScriptFunc on the homepage with the callback of updateDecryptor:
\* [err, funcErr, url]
ScanHomepage(o, v) ==
    CASE o = "neterr"   -> [err |-> ErrNet, funcErr |-> Nil, url |-> <<>>]
      [] o = "noscript" -> [err |-> Nil, funcErr |-> Nil, url |-> <<>>]
      [] o = "noend"    -> [err |-> Nil, funcErr |-> ErrGettingBaseJs, url |-> <<>>]
      [] o = "badjson"  -> [err |-> Nil, funcErr |-> ErrGettingBaseJs, url |-> <<>>]
      [] o = "ok"       -> [err |-> Nil, funcErr |-> Nil,
                            url |-> Host \o PlayerJsUrl(v)]

\* `if funcErr != nil { return err }`
FuncErrReturn(err, funcErr) == err

\* the base.js version ID: [ok, verId]
VersionOf(url) ==
    LET sp == SplitN2(TrimPrefix(url, PlayerPrefix), "/")
    IN  [ok |-> Len(sp) = 2, verId |-> sp[1]]

\* `if d.versionId == verId`
UpToDate_never(dd, verId) == FALSE

UpToDate(dd, verId) == dd.versionId = verId

\* `if resp.StatusCode != 200` (negated)
StatusOk_any(code) == TRUE

StatusOk(code) == code = 200

\* http.Get(url), the status check, io.Copy and getDecryptOps: [err, ops]
FetchAndBuild(r, url) ==
    IF r.err THEN [err |-> ErrNet, ops |-> <<>>]
    ELSE IF ~StatusOk(r.code) THEN [err |-> ErrGettingBaseJs, ops |-> <<>>]
    ELSE IF ~r.read THEN [err |-> ErrNet, ops |-> <<>>]
    ELSE getDecryptOps(IF r.broken THEN BrokenJs ELSE BundleAt(url))

\* homepage scan, version parse and the up-to-date check
UpdHome(p) ==
    /\ pc[p] = "home"
    /\ \E o \in HomeOutcomes :
         LET r == ScanHomepage(o, homeVer)
             v == VersionOf(r.url)
             l == [loc[p] EXCEPT !.home = o, !.url = r.url]
         IN  IF r.err # Nil
             THEN /\ Finish(p, r.err, <<>>)
                  /\ loc' = [loc EXCEPT ![p] = l]
             ELSE IF r.funcErr # Nil
             THEN IF FuncErrReturn(r.err, r.funcErr) # Nil
                  THEN /\ Finish(p, FuncErrReturn(r.err, r.funcErr), <<>>)
                       /\ loc' = [loc EXCEPT ![p] = l]
                  ELSE /\ pc' = [pc EXCEPT ![p] = "apply"]
                       /\ loc' = [loc EXCEPT ![p] = l]
                       /\ ret' = ret
             ELSE IF ~v.ok
             THEN /\ Finish(p, ErrGettingBaseJs, <<>>)
                  /\ loc' = [loc EXCEPT ![p] = l]
             ELSE IF UpToDate(d, v.verId)
             THEN /\ pc' = [pc EXCEPT ![p] = "apply"]
                  /\ loc' = [loc EXCEPT ![p] =
                               [l EXCEPT !.verId = v.verId, !.shortcut = TRUE,
                                         !.seenOps = d.ops,
                                         !.forVer = verOps]]
                  /\ ret' = ret
             ELSE /\ pc' = [pc EXCEPT ![p] = "bundle"]
                  /\ loc' = [loc EXCEPT ![p] = [l EXCEPT !.verId = v.verId]]
                  /\ ret' = ret
    /\ UNCHANGED <<d, homeVer, nUpd, tries, ncalls, hist, pub, verOps, pureVars>>

\* bundle fetch and build of the operation list
UpdFetch(p) ==
    /\ pc[p] = "bundle"
    /\ \E r \in BundleOutcomes :
         LET b == FetchAndBuild(r, loc[p].url)
         IN  /\ IF b.err # Nil
                THEN Finish(p, b.err, <<>>)
                ELSE /\ pc' = [pc EXCEPT ![p] = "write"]
                     /\ ret' = ret
             /\ loc' = [loc EXCEPT ![p] = [@ EXCEPT !.bresp = r, !.newOps = b.ops]]
    /\ hist' = [hist EXCEPT ![p] = [@ EXCEPT !.fetches = @ + 1]]
    /\ UNCHANGED <<d, homeVer, nUpd, tries, ncalls, pub, verOps, pureVars>>

\* `d.versionId = verId; d.ops = ops`: two unsynchronised stores, which
\* another goroutine may observe in either order
WriteOrders == {"ver", "ops"}

Store(dd, field, l) ==
    IF field = "ver" THEN [dd EXCEPT !.versionId = l.verId]
    ELSE [dd EXCEPT !.ops = l.newOps]

Write1(p) ==
    /\ pc[p] = "write"
    /\ \E first \in WriteOrders :
         /\ d' = Store(d, first, loc[p])
         /\ verOps' = IF first = "ver" THEN loc[p].newOps ELSE verOps
         /\ loc' = [loc EXCEPT ![p] = [@ EXCEPT !.wrote = first]]
    /\ pc' = [pc EXCEPT ![p] = "write2"]
    /\ UNCHANGED <<homeVer, nUpd, tries, ret, ncalls, hist, pub, pureVars>>

Write2(p) ==
    /\ pc[p] = "write2"
    /\ d' = Store(d, IF loc[p].wrote = "ver" THEN "ops" ELSE "ver", loc[p])
    /\ verOps' = IF loc[p].wrote = "ver" THEN verOps ELSE loc[p].newOps
    /\ pub' = Append(pub, loc[p].url)
    /\ pc' = [pc EXCEPT ![p] = "apply"]
    /\ loc' = [loc EXCEPT ![p] = [@ EXCEPT !.wrote = "both"]]
    /\ UNCHANGED <<homeVer, nUpd, tries, ret, ncalls, hist, pureVars>>

\* ------------------------------------------------------------------------
\* decrypt: the loop over d.ops after updateDecryptor returned nil
\* ------------------------------------------------------------------------
StreamUrlOf_rawSig(l, s) == l.base \o <<"&">> \o l.spn \o <<"=">> \o l.sig

StreamUrlOf(l, s) == l.base \o <<"&">> \o l.spn \o <<"=">> \o s

Apply(p) ==
    /\ pc[p] = "apply"
    /\ LET r == ApplyOps(d.ops, loc[p].sig)
           l == [loc[p] EXCEPT !.applied = d.ops]
       IN  IF ~r.ok
           THEN /\ pc' = [pc EXCEPT ![p] = "panic"]
                /\ loc' = [loc EXCEPT ![p] = l]
                /\ ret' = ret
           ELSE IF loc[p].caller = "decrypt"
           THEN /\ Finish(p, Nil, r.s)
                /\ loc' = [loc EXCEPT ![p] = l]
           ELSE /\ pc' = [pc EXCEPT ![p] = "probe"]
                /\ loc' = [loc EXCEPT ![p] = [l EXCEPT !.resUrl = StreamUrlOf(l, r.s)]]
                /\ ret' = ret
    /\ UNCHANGED <<d, homeVer, nUpd, tries, ncalls, hist, pub, verOps, pureVars>>

\* a caller invokes d.decrypt(sig) on the shared decryptor
Decrypt(p) ==
    /\ pc[p] \in {"idle", "done"}
    /\ ncalls[p] < MaxCalls
    /\ \E sig \in Sigs :
         loc' = [loc EXCEPT ![p] = [LocInit EXCEPT !.caller = "decrypt", !.sig = sig]]
    /\ pc' = [pc EXCEPT ![p] = "home"]
    /\ ncalls' = [ncalls EXCEPT ![p] = @ + 1]
    /\ hist' = [hist EXCEPT ![p] = HistInit]
    /\ ret' = [ret EXCEPT ![p] = RetInit]
    /\ UNCHANGED <<d, homeVer, nUpd, tries, pub, verOps, pureVars>>

\* ------------------------------------------------------------------------
\* getVideo
\* ------------------------------------------------------------------------
\* try() up to the point where the stream URL is known or decrypt is
\* needed: [err, direct, url, sig, spn, base, duration]
TryResolve_ignoresExpiry(o) ==
    LET fs == o.data.AdaptiveFormats
        i == SelectMaxBr(fs)
        ft == fs[i]
        q == ParseQuery(ft.SignatureCipher)
        dur == IF AtoiOk(o.data.LengthSeconds)
               THEN AtoiVal(o.data.LengthSeconds) ELSE -1
        fail(e) == [err |-> e, direct |-> FALSE, url |-> <<>>, sig |-> <<>>,
                    spn |-> <<>>, base |-> <<>>, duration |-> 0]
    IN  IF o.kind = "neterr" THEN fail(ErrNet)
        ELSE IF o.kind = "badjson" THEN fail(ErrJson)
        ELSE IF i = 0 THEN fail(ErrNoSuitableFormat)
        ELSE IF ft.Url # <<>>
        THEN [err |-> Nil, direct |-> TRUE, url |-> ft.Url, sig |-> <<>>,
              spn |-> <<>>, base |-> <<>>, duration |-> dur]
        ELSE IF q.err # Nil THEN fail(ErrGettingUrlFromSignatureCipher)
        ELSE [err |-> Nil, direct |-> FALSE, url |-> <<>>,
              sig |-> QueryGet(q.pairs, "s"), spn |-> QueryGet(q.pairs, "sp"),
              base |-> QueryGet(q.pairs, "url"), duration |-> dur]

TryResolve(o) ==
    LET fs == o.data.AdaptiveFormats
        i == SelectMaxBr(fs)
        ft == fs[i]
        q == ParseQuery(ft.SignatureCipher)
        dur == IF AtoiOk(o.data.LengthSeconds)
               THEN AtoiVal(o.data.LengthSeconds) ELSE -1
        fail(e) == [err |-> e, direct |-> FALSE, url |-> <<>>, sig |-> <<>>,
                    spn |-> <<>>, base |-> <<>>, duration |-> 0]
    IN  IF o.kind = "neterr" THEN fail(ErrNet)
        ELSE IF o.kind = "badjson" THEN fail(ErrJson)
        ELSE IF i = 0 THEN fail(ErrNoSuitableFormat)
        ELSE IF ~AtoiOk(o.data.ExpiresInSeconds) THEN fail(ErrAtoi)
        ELSE IF ft.Url # <<>>
        THEN [err |-> Nil, direct |-> TRUE, url |-> ft.Url, sig |-> <<>>,
              spn |-> <<>>, base |-> <<>>, duration |-> dur]
        ELSE IF q.err # Nil THEN fail(ErrGettingUrlFromSignatureCipher)
        ELSE [err |-> Nil, direct |-> FALSE, url |-> <<>>,
              sig |-> QueryGet(q.pairs, "s"), spn |-> QueryGet(q.pairs, "sp"),
              base |-> QueryGet(q.pairs, "url"), duration |-> dur]

\* isOk: the reachability probe's verdict
isOk_anyStatus(r) == ~r.err

isOk(r) == ~r.err /\ r.code = 200

\* the loop condition `tries < 10`
LoopContinues_le(t) == t <= MaxTries

LoopContinues(t) == t < MaxTries

GetVideo(p) ==
    /\ pc[p] \in {"idle", "done"}
    /\ ncalls[p] < MaxCalls
    /\ ncalls' = [ncalls EXCEPT ![p] = @ + 1]
    /\ tries' = [tries EXCEPT ![p] = 0]
    /\ hist' = [hist EXCEPT ![p] = HistInit]
    /\ loc' = [loc EXCEPT ![p] = [LocInit EXCEPT !.caller = "getVideo"]]
    /\ IF LoopContinues(0)
       THEN /\ pc' = [pc EXCEPT ![p] = "try"]
            /\ ret' = [ret EXCEPT ![p] = RetInit]
       ELSE Finish(p, ErrDecryptFunctionBroken, <<>>)
    /\ UNCHANGED <<d, homeVer, nUpd, pub, verOps, pureVars>>

\* one invocation of try(), up to the stream URL or the call of decrypt
Try(p) ==
    /\ pc[p] = "try"
    /\ \E o \in PageOutcomes :
         LET t == TryResolve(o)
             l == [LocInit EXCEPT !.caller = "getVideo", !.page = o.kind,
                                  !.data = o.data, !.duration = t.duration]
         IN  IF t.err # Nil
             THEN /\ Finish(p, t.err, <<>>)
                  /\ loc' = [loc EXCEPT ![p] = l]
             ELSE IF t.direct
             THEN /\ pc' = [pc EXCEPT ![p] = "probe"]
                  /\ loc' = [loc EXCEPT ![p] = [l EXCEPT !.resUrl = t.url]]
                  /\ ret' = ret
             ELSE /\ pc' = [pc EXCEPT ![p] = "home"]
                  /\ loc' = [loc EXCEPT ![p] =
                               [l EXCEPT !.sig = t.sig, !.spn = t.spn,
                                         !.base = t.base]]
                  /\ ret' = ret
    /\ hist' = [hist EXCEPT ![p] = [@ EXCEPT !.attempts = @ + 1]]
    /\ UNCHANGED <<d, homeVer, nUpd, tries, ncalls, pub, verOps, pureVars>>

\* isOk(data.StreamUrl) and the loop step
Probe(p) ==
    /\ pc[p] = "probe"
    /\ \E r \in ProbeOutcomes :
         /\ hist' = [hist EXCEPT ![p] =
                       [@ EXCEPT !.probeUrl = loc[p].resUrl, !.probeResp = r,
                                 !.probeAt = hist[p].attempts,
                                 !.invalid = IF isOk(r) THEN @ ELSE @ + 1]]
         /\ IF isOk(r)
            THEN /\ Finish(p, Nil, loc[p].resUrl)
                 /\ tries' = tries
            ELSE /\ tries' = [tries EXCEPT ![p] = @ + 1]
                 /\ IF LoopContinues(tries[p] + 1)
                    THEN /\ pc' = [pc EXCEPT ![p] = "try"]
                         /\ ret' = ret
                    ELSE Finish(p, ErrDecryptFunctionBroken, <<>>)
    /\ UNCHANGED <<d, homeVer, nUpd, loc, ncalls, pub, verOps, pureVars>>

\* ------------------------------------------------------------------------
\* Specifications
\* ------------------------------------------------------------------------
\* one caller resolving videos, the served bundle version changing
Next ==
    \/ \E p \in Solo : GetVideo(p)
    \/ \E p \in Solo : Try(p)
    \/ \E p \in Solo : UpdHome(p)
    \/ \E p \in Solo : UpdFetch(p)
    \/ \E p \in Solo : Write1(p)
    \/ \E p \in Solo : Write2(p)
    \/ \E p \in Solo : Apply(p)
    \/ \E p \in Solo : Probe(p)
    \/ ServerUpdate

Spec == Init /\ [][Next]_vars

\* two callers sharing one decryptor
NextConc ==
    \/ \E p \in Procs : Decrypt(p)
    \/ \E p \in Procs : UpdHome(p)
    \/ \E p \in Procs : UpdFetch(p)
    \/ \E p \in Procs : Write1(p)
    \/ \E p \in Procs : Write2(p)
    \/ \E p \in Procs : Apply(p)
    \/ ServerUpdate

SpecConc == Init /\ [][NextConc]_vars

\* ------------------------------------------------------------------------
\* getDecryptOps on its own: every bundle of a bounded family
\* ------------------------------------------------------------------------
UnknownPat == "function(a,b){a.push(b)}"

HelperBodies == {ReversePat, SwapPat, SplicePat, UnknownPat}
HelperNames == <<"ab", "cd", "ef">>
CallArgs == {"1", "2", "x"}

\* the entry-point bodies of 1..n calls on the helper object Xy
RECURSIVE DecrFns(_)
DecrFns(n) ==
    IF n = 0 THEN {}
    ELSE LET one == {Call("Xy", HelperNames[k], a) :
                        k \in 1..Len(HelperNames), a \in CallArgs}
         IN  one \cup {f \o <<";">> \o c : f \in DecrFns(n - 1), c \in one}

BundleSpace ==
    {[nameMatch |-> TRUE, hasBody |-> TRUE, objName |-> <<"Xy">>,
      table |-> Line(HelperNames[1], b1) \o <<"\n">> \o Line(HelperNames[2], b2)
                  \o <<"\n">> \o Line(HelperNames[3], b3),
      decrFn |-> f] :
        b1 \in HelperBodies, b2 \in HelperBodies, b3 \in HelperBodies,
        f \in DecrFns(MaxDecrCalls)}

InitOps ==
    /\ InitShared
    /\ baseJsIn \in BundleSpace
    /\ built = NotBuilt
    /\ adaptive = <<>>
    /\ maxBr = -1
    /\ InitDecIdle
    /\ InitPlIdle
    /\ InitAuxIdle

Build ==
    /\ built = NotBuilt
    /\ built' = getDecryptOps(baseJsIn)
    /\ UNCHANGED <<d, homeVer, nUpd, pc, loc, tries, ret, ncalls, hist, pub,
                   verOps, baseJsIn, adaptive, maxBr, decVars, plVars, auxVars>>

NextOps == Build

SpecOps == InitOps /\ [][NextOps]_vars

\* ------------------------------------------------------------------------
\* The format selection on its own: every format list of a bounded family
\* ------------------------------------------------------------------------
FormatSpace ==
    {Format(m, br, DirectUrl, <<>>) :
        m \in {MimeAudioMp4, MimeAudioWebm, MimeVideoMp4}, br \in 1..MaxBitrate}

FormatLists ==
    UNION {[1..n -> FormatSpace] : n \in 0..MaxFormats}

InitSel ==
    /\ InitShared
    /\ baseJsIn = BrokenJs
    /\ built = NotBuilt
    /\ adaptive \in FormatLists
    /\ maxBr = -1
    /\ InitDecIdle
    /\ InitPlIdle
    /\ InitAuxIdle

Select ==
    /\ maxBr = -1
    /\ maxBr' = SelectMaxBr(adaptive)
    /\ UNCHANGED <<d, homeVer, nUpd, pc, loc, tries, ret, ncalls, hist, pub,
                   verOps, baseJsIn, built, adaptive, decVars, plVars, auxVars>>

NextSel == Select

SpecSel == InitSel /\ [][NextSel]_vars

\* ------------------------------------------------------------------------
\* Properties
\* ------------------------------------------------------------------------
Returned(p) == pc[p] = "done" /\ loc[p].caller = "getVideo"

\* C1: a getVideo call makes at most 10 attempts; when it returns data, the
\* data is that of the attempt just probed, which passed, and every earlier
\* attempt was probed and failed; it returns ErrDecryptFunctionBroken
\* exactly when 10 attempts were made and each of them reached the probe
\* and failed it.
C1_RetryLoop ==
    \A p \in Solo :
        /\ hist[p].attempts <= 10
        /\ tries[p] <= 10
        /\ (Returned(p) /\ ret[p].err = Nil) =>
              /\ hist[p].probeAt = hist[p].attempts
              /\ hist[p].probeUrl = ret[p].val
              /\ hist[p].probeResp = [err |-> FALSE, code |-> 200]
              /\ hist[p].invalid = hist[p].attempts - 1
        /\ (Returned(p) /\ ret[p].err = ErrDecryptFunctionBroken)
              <=> (Returned(p) /\ hist[p].attempts = 10 /\ hist[p].invalid = 10)

C1_Witness ==
    /\ Returned(1)
    /\ ret[1].err = ErrDecryptFunctionBroken
    /\ hist[1].attempts = 10
    /\ hist[1].invalid = 10

\* C2: whenever getVideo returns without error, the stream URL it returns
\* is the URL probed on the last attempt of that call, and that probe
\* answered without transport error and with a 2xx status.
C2_ReturnedUrlWasProbed ==
    \A p \in Solo :
        (Returned(p) /\ ret[p].err = Nil) =>
            /\ ret[p].val = loc[p].resUrl
            /\ hist[p].probeUrl = ret[p].val
            /\ hist[p].probeAt = hist[p].attempts
            /\ ~hist[p].probeResp.err
            /\ hist[p].probeResp.code \in 200..299

C2_Witness ==
    /\ Returned(1)
    /\ ret[1].err = Nil
    /\ loc[1].sig # <<>>
    /\ hist[1].invalid >= 1
    /\ hist[1].probeUrl = ret[1].val

\* C3: a caller of decrypt that found d.versionId equal to the version it
\* discovered applies the op list that was built by the rebuild which
\* stored that versionId (never an older or an empty list).
C3_NoHalfUpdatedPair ==
    \A p \in Procs :
        (loc[p].shortcut /\ pc[p] \in {"done", "panic"}) =>
            loc[p].applied = loc[p].forVer

\* the callers that are between the bundle request and the publication
InFlight == {p \in Procs : pc[p] \in {"bundle", "write", "write2"}}

\* C4: at most one rebuild (bundle fetch up to the publication of its
\* result) is in flight at a time, and no bundle URL has its rebuild
\* published twice.
C4_OneRebuild ==
    /\ Cardinality(InFlight) <= 1
    /\ \A i, j \in 1..Len(pub) : pub[i] = pub[j] => i = j

\* the version segment of the bundle URL the homepage pointed to
ServedVersion(url) == <<url[Len(Host) + Len(PlayerPrefix) + 1]>>

\* C5: after every decrypt that succeeded on a well-formed homepage, the
\* cached versionId is the <version> segment of the /s/player/<version>/...
\* path it discovered and the cached ops are those of that version's
\* bundle.
C5_CacheFollowsVersion ==
    \A p \in Solo :
        (pc[p] = "probe" /\ loc[p].home = "ok") =>
            /\ d.versionId = ServedVersion(loc[p].url)
            /\ d.ops = getDecryptOps(BundleAt(loc[p].url)).ops

\* the weaker half of C5 alone: the cached ops belong to the discovered
\* version
C5_OpsOfServedVersion ==
    \A p \in Solo :
        (pc[p] = "probe" /\ loc[p].home = "ok") =>
            d.ops = getDecryptOps(BundleAt(loc[p].url)).ops

\* C6: when the homepage scan succeeds and the cached versionId equals the
\* version just discovered, updateDecryptor returns at once: no bundle
\* fetch is made, versionId and ops are left as they are, and the decrypt
\* loop then applies exactly the ops that were cached at that moment.
C6_ShortCircuit ==
    /\ [][\A p \in Solo :
            ( /\ pc[p] = "home"
              /\ pc'[p] # "home"
              /\ loc'[p].home = "ok"
              /\ VersionOf(loc'[p].url).ok
              /\ d.versionId = VersionOf(loc'[p].url).verId )
            => ( /\ pc'[p] = "apply"
                 /\ d' = d
                 /\ hist'[p].fetches = hist[p].fetches
                 /\ loc'[p].shortcut
                 /\ loc'[p].seenOps = d.ops )]_vars
    /\ [](\A p \in Solo :
            (loc[p].shortcut /\ pc[p] \in {"probe", "done", "panic"}) =>
                /\ loc[p].applied = loc[p].seenOps
                /\ d.ops = loc[p].seenOps)

C6_Witness ==
    /\ pc[1] = "probe"
    /\ loc[1].shortcut
    /\ loc[1].applied # <<>>
    /\ hist[1].fetches = 0

\* the inputs on which a step of updateDecryptor fails with an error
HomeFails(o) == o \in {"neterr", "noscript"}

BundleFails(r) == r.err \/ r.code # 200 \/ ~r.read \/ r.broken

\* C7: a failing step of updateDecryptor (homepage fetch, version parse,
\* bundle request, non-200 status, body read, discovery of the function
\* name, body, op table or arguments) leaves versionId and ops as they
\* were and makes the call return an error; the cache changes only in the
\* two stores that follow a fully successful build.
C7_CacheKeptOnFailure ==
    [][ /\ \A p \in Solo :
            ( \/ /\ pc[p] = "home"
                 /\ pc'[p] # "home"
                 /\ HomeFails(loc'[p].home)
              \/ /\ pc[p] = "bundle"
                 /\ pc'[p] # "bundle"
                 /\ BundleFails(loc'[p].bresp) )
            => ( /\ d' = d
                 /\ pc'[p] = "done"
                 /\ ret'[p].err # Nil )
        /\ (d' # d) =>
              \E p \in Solo :
                  /\ pc[p] \in {"write", "write2"}
                  /\ ~BundleFails(loc[p].bresp)
                  /\ getDecryptOps(BundleAt(loc[p].url)).err = Nil
                  /\ loc[p].newOps = getDecryptOps(BundleAt(loc[p].url)).ops
      ]_vars

C7_Witness ==
    /\ pc[1] = "done"
    /\ loc[1].bresp = [err |-> FALSE, code |-> 404, read |-> TRUE, broken |-> FALSE]
    /\ ret[1].err = ErrGettingBaseJs
    /\ d = [versionId |-> <<>>, ops |-> <<>>]

\* C8: when the bootstrap script is found but its end marker is missing or
\* its JSON does not parse, decrypt returns an error and no string.
C8_MalformedBootstrapFails ==
    \A p \in Solo :
        (loc[p].home \in {"noend", "badjson"} /\ pc[p] # "home") =>
            /\ pc[p] = "done"
            /\ ret[p].err # Nil

\* the helper-object lines of the bundle under build
TableLines == Split(baseJsIn.table, "\n")

HasUnknownEntry ==
    \E i \in 1..Len(TableLines) :
        LET body == Split(TableLines[i], ":")[2]
        IN  body[1] \notin {ReversePat, SwapPat, SplicePat}

\* C9: a bundle whose helper object has an entry matching none of the
\* three known bodies never builds: getDecryptOps returns an error for it,
\* whether or not the entry point calls that entry.
C9_UnknownEntryFailsBuild ==
    (built # NotBuilt /\ HasUnknownEntry) => built.err # Nil

\* the indexes of the audio formats of the list under selection
AudioIdx == {i \in 1..Len(adaptive) : adaptive[i].MimeType[1] = "audio/"}

\* C10: the selected format is an audio format of maximal bitrate and the
\* first of that bitrate in list order; a format of another MIME type is
\* never selected; nothing is selected only if there is no audio format.
C10_SelectsFirstMaxAudio ==
    (maxBr # -1) =>
        IF AudioIdx = {} THEN maxBr = 0
        ELSE /\ maxBr \in AudioIdx
             /\ \A j \in AudioIdx :
                   /\ adaptive[j].Bitrate <= adaptive[maxBr].Bitrate
                   /\ (j < maxBr => adaptive[j].Bitrate < adaptive[maxBr].Bitrate)

C10_Witness ==
    /\ maxBr = 2
    /\ Len(adaptive) = 3
    /\ adaptive[1].MimeType = MimeVideoMp4
    /\ adaptive[1].Bitrate = 2
    /\ adaptive[2].MimeType[1] = "audio/"
    /\ adaptive[3].MimeType[1] = "audio/"
    /\ adaptive[2].Bitrate = adaptive[3].Bitrate

\* the attempt of caller p has a player response without any audio format
NoAudioResponse(p) ==
    /\ loc[p].page = "ok"
    /\ \A i \in 1..Len(loc[p].data.AdaptiveFormats) :
          loc[p].data.AdaptiveFormats[i].MimeType[1] # "audio/"

\* C11: an attempt whose player response has no adaptive format with a
\* MIME type starting with "audio/" ends getVideo with ErrNoSuitableFormat
\* and no stream URL; on that attempt updateDecryptor is not entered, no
\* ops are applied and no probe is sent.
C11_NoAudioFails ==
    \A p \in Solo :
        NoAudioResponse(p) =>
            /\ pc[p] = "done"
            /\ ret[p].err = ErrNoSuitableFormat
            /\ ret[p].val = <<>>
            /\ loc[p].home = "none"
            /\ loc[p].resUrl = <<>>
            /\ hist[p].probeAt < hist[p].attempts

C11_Witness ==
    /\ NoAudioResponse(1)
    /\ Len(loc[1].data.AdaptiveFormats) >= 1
    /\ hist[1].attempts = 2
    /\ ret[1].err = ErrNoSuitableFormat

\* the format try() selected on the attempt of caller p
SelectedFormat(p) ==
    loc[p].data.AdaptiveFormats[SelectMaxBr(loc[p].data.AdaptiveFormats)]

\* C12: when the stream URL of an attempt is known, it is the selected
\* format's direct URL if that is non-empty, and then updateDecryptor was
\* not entered; otherwise it is url & sp = decrypt(s) for the s, sp and url
\* of the format's signature cipher.
C12_StreamUrlShape ==
    \A p \in Solo :
        pc[p] = "probe" =>
            IF SelectedFormat(p).Url # <<>>
            THEN /\ loc[p].resUrl = SelectedFormat(p).Url
                 /\ loc[p].home = "none"
                 /\ loc[p].applied = <<>>
            ELSE \E sig \in Sigs, spn \in {"sig", "signature"} :
                    /\ SelectedFormat(p).SignatureCipher = Cipher(sig, spn, BaseUrl)
                    /\ ApplyOps(d.ops, sig).ok
                    /\ loc[p].resUrl =
                          BaseUrl \o <<"&", spn, "=">> \o ApplyOps(d.ops, sig).s

C12_Witness ==
    /\ pc[1] = "probe"
    /\ SelectedFormat(1).Url = <<>>
    /\ d.ops # <<>>
    /\ loc[1].resUrl # BaseUrl \o <<"&", "sig", "=", "a", "b", "c">>
    /\ loc[1].spn = <<"sig">>

\* C13: a probe answered without transport error and with a 2xx status
\* ends the call with the probed URL; any other answer does not.
C13_Accepts2xx ==
    \A p \in Solo :
        (hist[p].attempts > 0 /\ hist[p].probeAt = hist[p].attempts) =>
            ( (~hist[p].probeResp.err /\ hist[p].probeResp.code \in 200..299)
              <=> (Returned(p) /\ ret[p].err = Nil
                   /\ ret[p].val = hist[p].probeUrl) )

\* ------------------------------------------------------------------------
\* The loop of decrypt on its own: every op list and input of a bounded
\* family (the ops as getDecryptOps can build them)
\* ------------------------------------------------------------------------
OpArgs == {AtoiVal(<<x>>) : x \in Digits}

OpSpace == {[fn |-> f, arg |-> n] : f \in {"reverse", "swap", "splice"}, n \in OpArgs}

OpLists == UNION {[1..n -> OpSpace] : n \in 0..MaxOps}

Letters == <<"a", "b", "c", "d", "e", "f">>

\* inputs of pairwise distinct characters, the empty string included
Strings == {SubSeq(Letters, 1, n) : n \in 0..MaxStrLen}

InitDec ==
    /\ InitShared
    /\ baseJsIn = BrokenJs
    /\ built = NotBuilt
    /\ adaptive = <<>>
    /\ maxBr = -1
    /\ decOps \in OpLists
    /\ decIn \in Strings
    /\ decOut = DecPending
    /\ InitPlIdle
    /\ InitAuxIdle

\* `s := input; for _, op := range d.ops { op.fn(&s, op.arg) }`
RunDecrypt ==
    /\ ~decOut.done
    /\ LET r == ApplyOps(decOps, decIn)
       IN  decOut' = [done |-> TRUE, ok |-> r.ok, s |-> r.s]
    /\ UNCHANGED <<d, homeVer, nUpd, pc, loc, tries, ret, ncalls, hist, pub,
                   verOps, baseJsIn, built, adaptive, maxBr, decOps, decIn,
                   plVars, auxVars>>

NextDec == RunDecrypt

SpecDec == InitDec /\ [][NextDec]_vars

\* the ops of a list composed from its end: the last op on the result of
\* all the ops before it
RECURSIVE LastOnRest(_, _)
LastOnRest(ops, a) ==
    IF ops = <<>> THEN [ok |-> TRUE, s |-> a]
    ELSE LET r == LastOnRest(SubSeq(ops, 1, Len(ops) - 1), a)
         IN  IF r.ok THEN ApplyOp(ops[Len(ops)], r.s) ELSE Fault

\* C14: the result of decrypt is that of the cached ops applied one after
\* another in list order, each to the whole output of the one before; with
\* no ops it is the input; it is a function of the ops and the input.
C14_OpsInOrder ==
    decOut.done =>
        /\ (decOps = <<>> => (decOut.ok /\ decOut.s = decIn))
        /\ decOut.ok = LastOnRest(decOps, decIn).ok
        /\ decOut.ok => decOut.s = LastOnRest(decOps, decIn).s

C14_Witness ==
    /\ decOut.done
    /\ decOut.ok
    /\ decIn = <<"a", "b", "c">>
    /\ decOps = <<[fn |-> "splice", arg |-> 1], [fn |-> "reverse", arg |-> 0]>>
    /\ decOut.s = <<"c", "b">>

\* C15: on a non-empty string swapFirst(n) exchanges the characters at
\* index 0 and index n mod length and leaves every other position alone;
\* applied twice with the same n it gives the input back.
C15_SwapFirst ==
    (decOut.done /\ decIn # <<>>) =>
        /\ \A n \in OpArgs :
              decOps = <<[fn |-> "swap", arg |-> n]>> =>
                  LET i == (n % Len(decIn)) + 1
                  IN  /\ decOut.ok
                      /\ Len(decOut.s) = Len(decIn)
                      /\ decOut.s[1] = decIn[i]
                      /\ decOut.s[i] = decIn[1]
                      /\ \A k \in 1..Len(decIn) :
                            (k # 1 /\ k # i) => decOut.s[k] = decIn[k]
        /\ \A n \in OpArgs :
              decOps = <<[fn |-> "swap", arg |-> n], [fn |-> "swap", arg |-> n]>> =>
                  (decOut.ok /\ decOut.s = decIn)

C15_Witness ==
    /\ decOut.done
    /\ decIn = <<"a", "b", "c">>
    /\ decOps = <<[fn |-> "swap", arg |-> 2], [fn |-> "swap", arg |-> 2]>>
    /\ decOut.s = decIn

\* C16: an op list of sliceFrom and reverse ops never faults; a single
\* sliceFrom(n) drops the first n characters and gives the empty string
\* when the input is shorter than n.
C16_SliceNeverFaults ==
    (decOut.done /\ \A k \in 1..Len(decOps) : decOps[k].fn # "swap") =>
        /\ decOut.ok
        /\ \A n \in OpArgs :
              decOps = <<[fn |-> "splice", arg |-> n]>> =>
                  decOut.s = IF n <= Len(decIn)
                             THEN SubSeq(decIn, n + 1, Len(decIn)) ELSE <<>>

\* ------------------------------------------------------------------------
\* GetPlaylist: the walk over the playlist sidebar
\* ------------------------------------------------------------------------
CtlChar == "\\x7f"
ErrUrl == "ErrUrl"

WatchUrl == "https://www.youtube.com/watch"
UrlWithList == <<WatchUrl, "?", "v", "=", "x1", "&", "list", "=", "PL1">>
UrlNoList == <<WatchUrl, "?", "v", "=", "x1">>
UrlBadEscape == <<WatchUrl, "?", "list", "=", BadEscape>>
UrlCtl == <<WatchUrl, CtlChar, "?", "list", "=", "PL1">>

PlaylistUrls == {UrlWithList, UrlNoList, UrlBadEscape, UrlCtl}

\* url.Parse: [err, RawQuery]; a control character is the parse error, the
\* query is not validated here
UrlParse(u) ==
    IF \E i \in 1..Len(u) : u[i] = CtlChar
    THEN [err |-> ErrUrl, RawQuery |-> <<>>]
    ELSE [err |-> Nil,
          RawQuery |-> IF Len(SplitN2(u, "?")) = 2 THEN SplitN2(u, "?")[2] ELSE <<>>]

\* the video the playlist holds at an index
VideoIdList == <<"vA", "vB", "vC", "vD", "vE", "vF">>
VidAt(i) == <<VideoIdList[i + 1]>>

WatchPrefix == <<"https://www.youtube.com/watch?v=">>

GoodLength == "3:05"
BadLength == "LIVE"

\* util.ParseDurationSeconds: [err, val]
ParseDurationSeconds(t) ==
    IF t = GoodLength THEN [err |-> Nil, val |-> 185]
    ELSE [err |-> ErrAtoi, val |-> 0]

\* `length, err := util.ParseDurationSeconds(..); if err != nil { length = -1 }`
LengthOf_zero(t) == ParseDurationSeconds(t).val

LengthOf(t) ==
    IF ParseDurationSeconds(t).err # Nil THEN -1 ELSE ParseDurationSeconds(t).val

\* the length text of the video the playlist holds at an index: the videos
\* at odd indices are live streams, whose length text is no duration
LengthTextAt(i) == IF i % 2 = 1 THEN BadLength ELSE GoodLength

\* the sidebar of a page: the indices it reports, in page order, every
\* index up to MaxIndex; at most one entry (noRuns, 0 for
\* none) comes without byline runs
PageIndices == UNION {[1..n -> 0..MaxIndex] : n \in 0..MaxPage}

Contents(idxs, noRuns) ==
    [k \in 1..Len(idxs) |->
        [videoId |-> VidAt(idxs[k]), index |-> idxs[k], runs |-> k # noRuns,
         lengthText |-> LengthTextAt(idxs[k])]]

\* `if index == len(res)`
InOrder_atLeast(i, n) == i >= n

InOrder(i, n) == i = n

\* the range loop over the page's contents; st is [vidId, index, res, added, err]
RECURSIVE PageLoop(_, _)
PageLoop(c, st) ==
    IF c = <<>> THEN st
    ELSE LET v == Head(c)
             st1 == [st EXCEPT !.vidId = v.videoId, !.index = v.index]
         IN  IF InOrder(v.index, Len(st.res))
             THEN IF ~v.runs
                  THEN [st1 EXCEPT !.err = ErrMalformedJson]
                  ELSE PageLoop(Tail(c),
                           [st1 EXCEPT
                               !.res = Append(@, [VideoURL |-> WatchPrefix \o v.videoId,
                                                  at |-> v.index,
                                                  Duration |-> LengthOf(v.lengthText)]),
                               !.added = TRUE])
             ELSE PageLoop(Tail(c), st1)

\* `if !added { break }`
StopsWalk_never(added) == FALSE

StopsWalk_always(added) == TRUE

StopsWalk(added) == ~added

\* the copy of res into the returned slice
cleanRes(r) == [k \in 1..Len(r) |-> r[k].VideoURL]

\* the 0-based index of the entry a request asks the sidebar to show next:
\* the first entry for the request without video, else the successor of the
\* video the request names (the index parameter is 1-based)
Successor(u) == IF u.v = <<>> THEN 0 ELSE u.index

\* a page that lists a contiguous ascending stretch of the playlist's
\* entries, all with byline, holding the entry asked for if there is one
IsWindow(idxs, noRuns, next, n) ==
    /\ noRuns = 0
    /\ \A k \in 1..Len(idxs) : idxs[k] <= n - 1
    /\ \A k \in 2..Len(idxs) : idxs[k] = idxs[k - 1] + 1
    /\ next <= n - 1 => \E k \in 1..Len(idxs) : idxs[k] = next

\* the playlist fits in one page, or is one entry longer than a page
PlaylistSizes == {MaxPage, MaxPage + 1}

MaxRequests == MaxIndex + MaxPage + 3

InitPl ==
    /\ InitShared
    /\ homeVer = "v1"
    /\ baseJsIn = BrokenJs
    /\ built = NotBuilt
    /\ adaptive = <<>>
    /\ maxBr = -1
    /\ InitDecIdle
    /\ InitAuxIdle
    /\ plUrl \in PlaylistUrls
    /\ plN \in PlaylistSizes
    /\ plPc = "parse"
    /\ plListId = <<>>
    /\ plVidId = <<>>
    /\ plIndex = 0
    /\ plRes = <<>>
    /\ plVUrl = NoVUrl
    /\ plNReq = 0
    /\ plPg = NoPage
    /\ plAllWin = TRUE
    /\ plRet = RetInit

plMain == <<d, homeVer, nUpd, pc, loc, tries, ret, ncalls, hist, pub, verOps,
            baseJsIn, built, adaptive, maxBr, decVars, auxVars>>

PlReturn(e, v) ==
    /\ plPc' = "done"
    /\ plRet' = [err |-> e, val |-> v]

\* url.Parse, url.ParseQuery, q.Get("list"); vidId := ""; index := 0
PlParse ==
    /\ plPc = "parse"
    /\ LET u == UrlParse(plUrl)
           q == ParseQuery(u.RawQuery)
       IN  IF u.err # Nil
           THEN PlReturn(u.err, <<>>) /\ UNCHANGED <<plListId, plVidId, plIndex>>
           ELSE IF q.err # Nil
           THEN PlReturn(ErrUrl, <<>>) /\ UNCHANGED <<plListId, plVidId, plIndex>>
           ELSE /\ plListId' = QueryGet(q.pairs, "list")
                /\ plVidId' = <<>>
                /\ plIndex' = 0
                /\ plPc' = "loop"
                /\ UNCHANGED plRet
    /\ UNCHANGED <<plUrl, plN, plRes, plVUrl, plNReq, plPg, plAllWin>>
    /\ UNCHANGED plMain

\* the head of the loop: vUrl is built and requested
PlRequest ==
    /\ plPc = "loop"
    /\ plNReq < MaxRequests
    /\ plVUrl' = [v |-> plVidId, list |-> plListId, index |-> plIndex + 1]
    /\ plNReq' = plNReq + 1
    /\ plPc' = "wait"
    /\ UNCHANGED <<plUrl, plN, plListId, plVidId, plIndex, plRes, plPg, plAllWin, plRet>>
    /\ UNCHANGED plMain

\* the rest of the loop body: getJSVar, json.Unmarshal, the range loop over
\* the contents, the break, and after the loop the return of the copy
PlResponse ==
    /\ plPc = "wait"
    /\ \E o \in {"neterr", "badjson", "page"} :
          IF o # "page"
          THEN /\ PlReturn(IF o = "neterr" THEN ErrNet ELSE ErrJson, <<>>)
               /\ plAllWin' = FALSE
               /\ UNCHANGED <<plVidId, plIndex, plRes, plPg>>
          ELSE \E idxs \in PageIndices : \E noRuns \in 0..Len(idxs) :
                  LET st == PageLoop(Contents(idxs, noRuns),
                                     [vidId |-> plVidId, index |-> plIndex,
                                      res |-> plRes, added |-> FALSE, err |-> Nil])
                  IN  /\ plVidId' = st.vidId
                      /\ plIndex' = st.index
                      /\ plRes' = st.res
                      /\ plPg' = [len |-> Len(idxs), added |-> Len(st.res) - Len(plRes),
                                noRuns |-> noRuns # 0]
                      /\ plAllWin' = (plAllWin /\ IsWindow(idxs, noRuns, Successor(plVUrl), plN))
                      /\ IF st.err # Nil THEN PlReturn(st.err, <<>>)
                         ELSE IF StopsWalk(st.added) THEN PlReturn(Nil, cleanRes(st.res))
                         ELSE plPc' = "loop" /\ UNCHANGED plRet
    /\ UNCHANGED <<plUrl, plN, plListId, plVUrl, plNReq>>
    /\ UNCHANGED plMain

NextPl == PlParse \/ PlRequest \/ PlResponse

SpecPl == InitPl /\ [][NextPl]_vars

\* the call runs on: each step of the sequential code is eventually taken
SpecPlFair == SpecPl /\ WF_vars(NextPl)

\* C17: at every point of the walk the entry at position i is the sidebar
\* entry that reported index i (positions and indices from 0), so the
\* collected list and the returned one have no duplicate, gap or reordering
\* and start with the playlist's first video.
C17_EntriesInOrder ==
    /\ \A i \in 1..Len(plRes) :
          /\ plRes[i].at = i - 1
          /\ plRes[i].VideoURL = WatchPrefix \o VidAt(i - 1)
    /\ plPg.added <= plPg.len
    /\ (plPc = "done" /\ plRet.err = Nil) =>
          /\ Len(plRet.val) = Len(plRes)
          /\ \A i \in 1..Len(plRet.val) : plRet.val[i] = WatchPrefix \o VidAt(i - 1)

C17_Witness ==
    /\ plPc = "done"
    /\ plRet.err = Nil
    /\ plRet.val = <<WatchPrefix \o VidAt(0), WatchPrefix \o VidAt(1),
                     WatchPrefix \o VidAt(2)>>
    /\ plNReq = 3
    /\ ~plAllWin

C18_Bounded ==
    /\ plNReq <= Len(plRes) + 1
    /\ (plPc = "loop" /\ plNReq > 0) => plPg.added > 0
    /\ (plPc = "done" /\ plRet.err = Nil) => plPg.added = 0

\* C18: the walk goes on only after a page that added an entry and returns
\* after the first page that added none, so the number of page requests is
\* at most the number of collected entries plus one, and GetPlaylist
\* returns.
C18_StopsAndTerminates == []C18_Bounded /\ <>(plPc = "done")

C18_Witness ==
    /\ plPc = "done"
    /\ plRet.err = Nil
    /\ plPg.len > 0
    /\ plPg.added = 0
    /\ plIndex < Len(plRes)
    /\ Len(plRes) = 2
    /\ plNReq = 3

\* C19: the first request has no video id and index 1; every later request
\* names the video of the last entry collected so far and the number of
\* entries collected so far; all carry the list id of the input URL.
C19_RequestShape ==
    plPc = "wait" =>
        /\ plVUrl.list = (IF plUrl = UrlWithList THEN <<"PL1">> ELSE <<>>)
        /\ IF plNReq = 1
           THEN plVUrl.v = <<>> /\ plVUrl.index = 1
           ELSE /\ plRes # <<>>
                /\ WatchPrefix \o plVUrl.v = plRes[Len(plRes)].VideoURL
                /\ plVUrl.index = Len(plRes)

\* C20: when every page served is a contiguous ascending window of the
\* playlist that holds the entry after the request's video (the first entry
\* for the first request), GetPlaylist returns all N entries in order.
C20_WalksWholePlaylist ==
    (plPc = "done" /\ plNReq > 0 /\ plAllWin) =>
        /\ plRet.err = Nil
        /\ Len(plRet.val) = plN
        /\ \A i \in 1..plN : plRet.val[i] = WatchPrefix \o VidAt(i - 1)

C20_Witness ==
    /\ plPc = "done"
    /\ plAllWin
    /\ plN > MaxPage
    /\ Len(plRet.val) = plN
    /\ plNReq >= 3

\* C21: a page with an entry that has no byline runs makes GetPlaylist
\* return ErrMalformedJson and no entries, whatever was collected before.
C21_MissingBylineFails ==
    (plNReq > 0 /\ plPc # "wait" /\ plPg.noRuns) =>
        /\ plPc = "done"
        /\ plRet.err = ErrMalformedJson
        /\ plRet.val = <<>>

\* ------------------------------------------------------------------------
\* getSearch: the result items of a search page
\* ------------------------------------------------------------------------
PlaylistPrefix == <<"https://www.youtube.com/playlist?list=">>

ItemKinds == {"video", "noTitle", "noByline", "badLength", "playlist", "both", "other"}

\* the k-th item of a results page, of a kind: its ids and texts carry k
ItemOf(kind, k) ==
    [VideoId |-> IF kind \in {"playlist", "other"} THEN <<>> ELSE VidAt(k - 1),
     TitleRuns |-> IF kind \in {"noTitle", "other"} THEN <<>> ELSE <<VidAt(k - 1)>>,
     BylineRuns |-> IF kind \in {"noByline", "other"} THEN <<>> ELSE <<VidAt(k - 1)>>,
     LengthText |-> IF kind = "badLength" THEN BadLength ELSE GoodLength,
     PlaylistId |-> IF kind \in {"playlist", "both"} THEN VidAt(k - 1) ELSE <<>>,
     PlaylistTitle |-> IF kind \in {"playlist", "both"} THEN VidAt(k - 1) ELSE <<>>]

ItemLists == UNION {[1..n -> ItemKinds] : n \in 0..MaxItems}

\* the items of a page laid out in two sections, the first of c items
Sections(kinds, c) ==
    LET items == [k \in 1..Len(kinds) |-> ItemOf(kinds[k], k)]
    IN  <<SubSeq(items, 1, c), SubSeq(items, c + 1, Len(items))>>

SearchPages ==
    {[o |-> "page", secs |-> Sections(kinds, c)] :
        <<kinds, c>> \in {x \in ItemLists \X (0..MaxItems) : x[2] <= Len(x[1])}}

SearchAnswers == {[o |-> "neterr", secs |-> <<>>], [o |-> "badjson", secs |-> <<>>]}
                     \cup SearchPages

EmptyData ==
    [SourceUrl |-> <<>>, Title |-> <<>>, Duration |-> 0, Uploader |-> <<>>,
     PlaylistUrl |-> <<>>, PlaylistTitle |-> <<>>]

\* `if v1.VideoRenderer.VideoId != ""`
IsVideo(v1) == v1.VideoId # <<>>

\* `else if v1.PlaylistRenderer.PlaylistId != ""`
IsPlaylist_never(v1) == FALSE

IsPlaylist(v1) == v1.PlaylistId # <<>>

\* `return nil, ErrMalformedJson`
FailSearch_keepsParsed(r) == [err |-> ErrMalformedJson, res |-> r]

FailSearch(r) == [err |-> ErrMalformedJson, res |-> <<>>]

\* the inner range loop, over the items of one section; st is [err, res]
RECURSIVE ItemLoop(_, _)
ItemLoop(items, st) ==
    IF items = <<>> \/ st.err # Nil THEN st
    ELSE LET v1 == Head(items)
         IN  IF IsVideo(v1)
             THEN IF Len(v1.TitleRuns) = 0 THEN FailSearch(st.res)
                  ELSE IF Len(v1.BylineRuns) = 0 THEN FailSearch(st.res)
                  ELSE ItemLoop(Tail(items),
                           [st EXCEPT !.res = Append(@,
                               [EmptyData EXCEPT
                                   !.SourceUrl = WatchPrefix \o v1.VideoId,
                                   !.Title = v1.TitleRuns[1],
                                   !.Duration = LengthOf(v1.LengthText),
                                   !.Uploader = v1.BylineRuns[1]])])
             ELSE IF IsPlaylist(v1)
             THEN ItemLoop(Tail(items),
                      [st EXCEPT !.res = Append(@,
                          [EmptyData EXCEPT
                              !.PlaylistUrl = PlaylistPrefix \o v1.PlaylistId,
                              !.PlaylistTitle = v1.PlaylistTitle])])
             ELSE ItemLoop(Tail(items), st)

\* the outer range loop, over the sections
RECURSIVE SectionLoop(_, _)
SectionLoop(secs, st) ==
    IF secs = <<>> \/ st.err # Nil THEN st
    ELSE SectionLoop(Tail(secs), ItemLoop(Head(secs), st))

getSearch(a) ==
    IF a.o = "neterr" THEN [err |-> ErrNet, res |-> <<>>]
    ELSE IF a.o = "badjson" THEN [err |-> ErrJson, res |-> <<>>]
    ELSE SectionLoop(a.secs, [err |-> Nil, res |-> <<>>])

InitSearch ==
    /\ InitShared
    /\ homeVer = "v1"
    /\ baseJsIn = BrokenJs
    /\ built = NotBuilt
    /\ adaptive = <<>>
    /\ maxBr = -1
    /\ InitDecIdle
    /\ InitPlIdle
    /\ srIn \in SearchAnswers
    /\ srOut = NotRun
    /\ sgIn = NoIn
    /\ sgOut = NotRun
    /\ InitRunIdle

mainVars == <<d, homeVer, nUpd, pc, loc, tries, ret, ncalls, hist, pub, verOps,
              baseJsIn, built, adaptive, maxBr, decVars, plVars>>

RunSearch ==
    /\ srIn.o # "none"
    /\ ~srOut.done
    /\ srOut' = [done |-> TRUE, err |-> getSearch(srIn).err, res |-> getSearch(srIn).res]
    /\ UNCHANGED <<srIn, sgIn, sgOut, rnVars>>
    /\ UNCHANGED mainVars

NextSearch == RunSearch

SpecSearch == InitSearch /\ [][NextSearch]_vars

\* the items of all sections of a page in page order
FlatItems == IF srIn.o = "page" THEN srIn.secs[1] \o srIn.secs[2] ELSE <<>>

\* the entry an item stands for
Matches(e, v1) ==
    IF v1.VideoId # <<>>
    THEN e.SourceUrl = WatchPrefix \o v1.VideoId /\ e.PlaylistUrl = <<>>
    ELSE e.PlaylistUrl = PlaylistPrefix \o v1.PlaylistId /\ e.SourceUrl = <<>>

\* C22: the result has one entry for each item with a video id or a
\* playlist id, in page order over all sections, and none for other items.
C22_OrderedSubsequence ==
    (srOut.done /\ srOut.err = Nil) =>
        LET emitting == {k \in 1..Len(FlatItems) :
                            FlatItems[k].VideoId # <<>> \/ FlatItems[k].PlaylistId # <<>>}
        IN  /\ Len(srOut.res) = Cardinality(emitting)
            /\ \E f \in [1..Len(srOut.res) -> 1..Len(FlatItems)] :
                  /\ \A j \in 1..Len(srOut.res) :
                        f[j] \in emitting /\ Matches(srOut.res[j], FlatItems[f[j]])
                  /\ \A i, j \in 1..Len(srOut.res) : i < j => f[i] < f[j]

C22_Witness ==
    /\ srOut.done
    /\ srOut.err = Nil
    /\ srIn.o = "page"
    /\ Len(srIn.secs[1]) = 1
    /\ Len(srIn.secs[2]) = 2
    /\ srIn.secs[1][1].VideoId = <<>>
    /\ srIn.secs[1][1].PlaylistId # <<>>
    /\ srIn.secs[2][1].VideoId = <<>>
    /\ srIn.secs[2][1].PlaylistId = <<>>
    /\ srIn.secs[2][2].VideoId # <<>>
    /\ Len(srOut.res) = 2

\* C23: a video item without title runs or without byline runs makes
\* getSearch return ErrMalformedJson and no results.
C23_MalformedVideoFails ==
    (srOut.done /\ \E k \in 1..Len(FlatItems) :
                      /\ FlatItems[k].VideoId # <<>>
                      /\ (FlatItems[k].TitleRuns = <<>> \/ FlatItems[k].BylineRuns = <<>>)) =>
        /\ srOut.err = ErrMalformedJson
        /\ srOut.res = <<>>

C23_Witness ==
    /\ srOut.done
    /\ srOut.err = ErrMalformedJson
    /\ Len(FlatItems) = 2
    /\ FlatItems[1].VideoId # <<>>
    /\ FlatItems[1].TitleRuns # <<>>
    /\ FlatItems[1].BylineRuns # <<>>
    /\ FlatItems[2].VideoId # <<>>
    /\ FlatItems[2].BylineRuns = <<>>

\* ------------------------------------------------------------------------
\* getSearchSuggestions: the payload of the suggestion endpoint
\* ------------------------------------------------------------------------
\* JSON values as json.Unmarshal into `any` gives them
Str(x) == [t |-> "str", s |-> x, e |-> <<>>]
Num == [t |-> "num", s |-> "0", e |-> <<>>]
Null == [t |-> "null", s |-> "", e |-> <<>>]
Obj == [t |-> "obj", s |-> "", e |-> <<>>]
Arr(es) == [t |-> "arr", s |-> "", e |-> es]
\* text that is no JSON
Garbage == [t |-> "garbage", s |-> "", e |-> <<>>]

\* an array of n elements starting with first
ArrOf(first, n) == Arr([k \in 1..n |-> IF k = 1 THEN first ELSE Num])

InnerArities == {0, 2, 3, 4}

InnerValues ==
    {Str("q"), Null} \cup
    {ArrOf(f, n) : f \in {Str("s1"), Str("s2"), Num}, n \in InnerArities}

SecondValues ==
    {Str("q"), Obj} \cup
    {Arr(l) : l \in UNION {[1..n -> InnerValues] : n \in 0..MaxSugg}}

TopArities == {1, 2, 3, 4}

TopValues ==
    {Null, Obj, Str("q")} \cup
    {Arr([k \in 1..n |-> IF k = 2 THEN sec ELSE Str("q")]) :
        sec \in SecondValues, n \in TopArities}

JsonpPrefix == "window.google.ac.h("

\* the body read: [pre, val, suf]
Bodies ==
    {[pre |-> JsonpPrefix, val |-> v, suf |-> ")"] : v \in TopValues} \cup
    {[pre |-> "", val |-> Arr(<<Str("q"), Arr(<<ArrOf(Str("s1"), 3)>>), Obj>>), suf |-> ""],
     [pre |-> "callback(", val |-> Arr(<<Str("q"), Arr(<<>>), Obj>>), suf |-> ")"],
     [pre |-> JsonpPrefix, val |-> Garbage, suf |-> ")"]}

NoBody == [pre |-> "", val |-> Garbage, suf |-> ""]

SuggestAnswers ==
    {[o |-> "neterr", body |-> NoBody], [o |-> "readerr", body |-> NoBody]}
        \cup {[o |-> "body", body |-> b] : b \in Bodies}

\* json.Unmarshal(raw, &data) with `var data []any`: [err, data]
UnmarshalArray(b) ==
    IF b.pre \notin {JsonpPrefix, ""} \/ b.val.t = "garbage"
    THEN [err |-> ErrJson, data |-> <<>>]
    ELSE IF b.val.t = "null" THEN [err |-> Nil, data |-> <<>>]
    ELSE IF b.val.t # "arr" THEN [err |-> ErrJson, data |-> <<>>]
    ELSE [err |-> Nil, data |-> b.val.e]

\* `len(data) != 3`, `len(rawSuggestion) != 3`
HasThree_orMore(a) == Len(a) >= 3

HasThree(a) == Len(a) = 3

\* the range loop over rawSuggestions; st is [err, res]
RECURSIVE SuggestionLoop(_, _)
SuggestionLoop(raws, st) ==
    IF raws = <<>> THEN st
    ELSE LET v == Head(raws)
         IN  IF v.t # "arr" \/ ~HasThree(v.e)
             THEN [err |-> ErrMalformedJson, res |-> <<>>]
             ELSE IF v.e[1].t # "str"
             THEN [err |-> ErrMalformedJson, res |-> <<>>]
             ELSE SuggestionLoop(Tail(raws), [st EXCEPT !.res = Append(@, v.e[1].s)])

getSearchSuggestions(a) ==
    IF a.o # "body" THEN [err |-> ErrNet, res |-> <<>>]
    ELSE LET u == UnmarshalArray(a.body)
         IN  IF u.err # Nil THEN [err |-> u.err, res |-> <<>>]
             ELSE IF ~HasThree(u.data) THEN [err |-> ErrMalformedJson, res |-> <<>>]
             ELSE IF u.data[2].t # "arr" THEN [err |-> ErrMalformedJson, res |-> <<>>]
             ELSE SuggestionLoop(u.data[2].e, [err |-> Nil, res |-> <<>>])

InitSuggest ==
    /\ InitShared
    /\ homeVer = "v1"
    /\ baseJsIn = BrokenJs
    /\ built = NotBuilt
    /\ adaptive = <<>>
    /\ maxBr = -1
    /\ InitDecIdle
    /\ InitPlIdle
    /\ srIn = NoIn
    /\ srOut = NotRun
    /\ sgIn \in SuggestAnswers
    /\ sgOut = NotRun
    /\ InitRunIdle

RunSuggest ==
    /\ sgIn.o # "none"
    /\ ~sgOut.done
    /\ sgOut' = [done |-> TRUE, err |-> getSearchSuggestions(sgIn).err,
                 res |-> getSearchSuggestions(sgIn).res]
    /\ UNCHANGED <<srIn, srOut, sgIn, rnVars>>
    /\ UNCHANGED mainVars

NextSuggest == RunSuggest

SpecSuggest == InitSuggest /\ [][NextSuggest]_vars

\* the payload is an array (the top-level value the endpoint is to send)
IsArrayPayload ==
    /\ sgIn.o = "body"
    /\ sgIn.body.pre \in {JsonpPrefix, ""}
    /\ sgIn.body.val.t = "arr"

\* a 3-element array whose second element is an array of 3-element arrays
\* that each start with a string
WellShaped ==
    /\ IsArrayPayload
    /\ Len(sgIn.body.val.e) = 3
    /\ sgIn.body.val.e[2].t = "arr"
    /\ \A k \in 1..Len(sgIn.body.val.e[2].e) :
          LET v == sgIn.body.val.e[2].e[k]
          IN  v.t = "arr" /\ Len(v.e) = 3 /\ v.e[1].t = "str"

\* C24: suggestions are returned only for a well-shaped payload, the first
\* strings of the inner arrays in payload order; an array payload of any
\* other shape gives ErrMalformedJson and no suggestions.
C24_SuggestionShape ==
    sgOut.done =>
        /\ sgOut.err = Nil => WellShaped
        /\ WellShaped =>
              /\ sgOut.err = Nil
              /\ Len(sgOut.res) = Len(sgIn.body.val.e[2].e)
              /\ \A k \in 1..Len(sgOut.res) : sgOut.res[k] = sgIn.body.val.e[2].e[k].e[1].s
        /\ (IsArrayPayload /\ ~WellShaped) =>
              (sgOut.err = ErrMalformedJson /\ sgOut.res = <<>>)
        /\ sgOut.err # Nil => sgOut.res = <<>>

C24_Witness ==
    /\ sgOut.done
    /\ WellShaped
    /\ sgOut.res = <<"s2", "s1">>

\* ------------------------------------------------------------------------
\* The three operations that read a duration, each run on its own: a
\* behaviour is one of getVideo, GetPlaylist or getSearch
\* ------------------------------------------------------------------------
InitDur ==
    \/ (Init /\ homeVer = "v1")
    \/ (InitPl /\ plUrl = UrlWithList /\ plN = MaxPage + 1)
    \/ InitSearch

NextDur ==
    \/ (plPc = "idle" /\ srIn.o = "none" /\ Next)
    \/ NextPl
    \/ NextSearch

SpecDur == InitDur /\ [][NextDur]_vars

AttemptError(p) ==
    LET l == loc[p]
        fs == l.data.AdaptiveFormats
    IN  IF l.page = "neterr" THEN ErrNet
        ELSE IF l.page = "badjson" THEN ErrJson
        ELSE IF l.page # "ok" THEN Nil
        ELSE IF \A i \in 1..Len(fs) : fs[i].MimeType[1] # "audio/"
        THEN ErrNoSuitableFormat
        ELSE IF l.data.ExpiresInSeconds = <<"soon">> THEN ErrAtoi
        ELSE IF /\ SelectedFormat(p).Url = <<>>
                /\ \E k \in 1..Len(SelectedFormat(p).SignatureCipher) :
                      SelectedFormat(p).SignatureCipher[k] = BadEscape
        THEN ErrGettingUrlFromSignatureCipher
        ELSE IF l.home = "neterr" THEN ErrNet
        ELSE IF l.home = "noscript" THEN ErrGettingBaseJs
        ELSE IF l.bresp # NoResp /\ (l.bresp.err \/ (l.bresp.code = 200 /\ ~l.bresp.read))
        THEN ErrNet
        ELSE IF l.bresp # NoResp /\ l.bresp.code # 200 THEN ErrGettingBaseJs
        ELSE IF l.bresp # NoResp /\ l.bresp.broken THEN ErrDecryptGettingFunctionName
        ELSE Nil

\* C26: an attempt that meets an error in page fetch, JSON parse, format
\* selection, expiry parse, cipher parse or decrypt ends getVideo with that
\* error, unprobed; attempts are repeated only after an invalid probe.
C26_FailFast ==
    \A p \in Solo :
        /\ (hist[p].attempts > 0 /\ AttemptError(p) # Nil) =>
              /\ Returned(p)
              /\ ret[p].err = AttemptError(p)
              /\ ret[p].val = <<>>
              /\ hist[p].probeAt < hist[p].attempts
        /\ tries[p] = hist[p].invalid
        /\ hist[p].attempts <= hist[p].invalid + 1
        /\ (Returned(p) /\ ret[p].err \notin {Nil, ErrDecryptFunctionBroken}) =>
              hist[p].probeAt < hist[p].attempts

C26_Witness ==
    /\ Returned(1)
    /\ AttemptError(1) = ErrAtoi
    /\ ret[1].err = ErrAtoi
    /\ hist[1].attempts = 3
    /\ hist[1].invalid = 2

\* the attempt of caller p selected a format without direct URL whose
\* signature cipher does not parse as a query string
MalformedCipher(p) ==
    /\ loc[p].page = "ok"
    /\ ~NoAudioResponse(p)
    /\ loc[p].data.ExpiresInSeconds # <<"soon">>
    /\ SelectedFormat(p).Url = <<>>
    /\ \E k \in 1..Len(SelectedFormat(p).SignatureCipher) :
          SelectedFormat(p).SignatureCipher[k] = BadEscape

\* C27: such an attempt ends getVideo with ErrGettingUrlFromSignatureCipher;
\* the decryptor is not entered, no op is applied, no stream URL is built
\* and nothing is probed.
C27_MalformedCipherFails ==
    \A p \in Solo :
        MalformedCipher(p) =>
            /\ Returned(p)
            /\ ret[p].err = ErrGettingUrlFromSignatureCipher
            /\ ret[p].val = <<>>
            /\ loc[p].home = "none"
            /\ loc[p].bresp = NoResp
            /\ loc[p].applied = <<>>
            /\ loc[p].resUrl = <<>>
            /\ hist[p].probeAt < hist[p].attempts

C27_Witness ==
    /\ MalformedCipher(1)
    /\ Returned(1)
    /\ ret[1].err = ErrGettingUrlFromSignatureCipher
    /\ hist[1].attempts = 2
    /\ d.ops # <<>>

\* the calls of the entry-point body under build: the k-th is the tokens
\* obj . name ( a, arg ) and the calls are separated by ";"
NumCalls == (Len(baseJsIn.decrFn) + 1) \div 8
CallName(k) == baseJsIn.decrFn[8 * (k - 1) + 3]
CallArg(k) == baseJsIn.decrFn[8 * (k - 1) + 6]

\* the primitive the helper object registers under a name, "none" if its
\* body is none of the three known ones (the names of the lines differ)
Registered(name) ==
    LET j == CHOOSE i \in 1..3 : baseJsIn.table[5 * (i - 1) + 1] = name
        body == baseJsIn.table[5 * (j - 1) + 3]
    IN  IF body = ReversePat THEN "reverse"
        ELSE IF body = SwapPat THEN "swap"
        ELSE IF body = SplicePat THEN "splice"
        ELSE "none"

CallsWellFormed ==
    \A k \in 1..NumCalls :
        CallArg(k) \in {"1", "2"} /\ Registered(CallName(k)) # "none"

\* C28: the built list has one op per call of the entry point, in call
\* order, each the primitive registered under the called name with the
\* call's integer argument; a call whose argument is no integer or whose
\* name is not in the table fails the build.
C28_OpsFollowCalls ==
    built # NotBuilt =>
        IF CallsWellFormed
        THEN /\ built.err = Nil
             /\ Len(built.ops) = NumCalls
             /\ \A k \in 1..NumCalls :
                   /\ built.ops[k].fn = Registered(CallName(k))
                   /\ built.ops[k].arg = (IF CallArg(k) = "1" THEN 1 ELSE 2)
        ELSE /\ built.err = ErrDecryptGettingOpTable
             /\ built.ops = <<>>

C28_Witness ==
    /\ built # NotBuilt
    /\ built.err = Nil
    /\ built.ops = <<[fn |-> "splice", arg |-> 2], [fn |-> "reverse", arg |-> 1]>>
    /\ HasUnknownEntry

\* C29: on the empty signature an op list with swapFirst (and no
\* sliceFrom) runs to its end: decrypt returns and does not fault.
C29_EmptySignatureNoFault ==
    ( /\ decOut.done
      /\ decIn = <<>>
      /\ \E k \in 1..Len(decOps) : decOps[k].fn = "swap"
      /\ \A k \in 1..Len(decOps) : decOps[k].fn # "splice" ) =>
        decOut.ok

\* ------------------------------------------------------------------------
\* Run (src/gobalt.go:199-273) and CobaltServerInfo (src/gobalt.go:54-80)
\* ------------------------------------------------------------------------

\* opts.Url is a string of characters: a lowercase letter, a dot and a
\* space stand for the three kinds the pattern of line 200 tells apart
\* (letter: in the class, [a-z] and a word character; dot: in the class,
\* the literal of `\.`, not a word character; space: outside the class).
UrlChars == {"a", ".", " "}

UrlStrings == UNION {[1..n -> UrlChars] : n \in 0..MaxUrlLen}

\* the bracket class [-a-zA-Z0-9@:%_+.~#?&/=]
InClass(c) == c \in {"a", "."}

IsLower(c) == c = "a"

IsWordChar(c) == c = "a"

\* The pattern matches with its literal dot on position i: at least two
\* class characters end right before the dot ({2,256}: the upper limit is
\* beyond every string considered), two to four lowercase letters follow
\* it, and a word boundary follows those. The optional path group matches
\* the empty string.
MatchesAt(u, i) ==
    /\ u[i] = "."
    /\ i >= 3
    /\ InClass(u[i - 1])
    /\ InClass(u[i - 2])
    /\ \E n \in 2..4 :
          /\ i + n <= Len(u)
          /\ \A k \in 1..n : IsLower(u[i + k])
          /\ (i + n = Len(u) \/ ~IsWordChar(u[i + n + 1]))

\* regexp.MatchString: a match anywhere in the string (the pattern has no
\* anchors)
MatchString(u) == \E i \in 1..Len(u) : MatchesAt(u, i)

\* CobaltApi: a base URL http.NewRequest can parse, or one it cannot
ApiValues == {"parsable", "unparsable"}

GetServerInfo == "GET /serverInfo"
PostApiJson == "POST /api/json"

\* how the exchange with the server can end once the request exists
Exchanges == {"ok", "do failed", "read failed", "unmarshal failed"}

ErrInvalidUrl == "invalid url provided"
ErrNoContact == "could not contact the cobalt server"
ErrExchange == "request error"
ErrCobalt == "cobalt error"

Statuses == {"error", "redirect", "stream", "success", "rate-limit", "picker"}

\* the unmarshalled CobaltResponse: status, url, the picker items' urls and
\* the untagged URLs field
Medias ==
    [Status : Statuses, URL : {"u"}, Picker : {<<>>, <<"p1", "p2">>},
     URLs : {<<>>, <<"s">>}]

InitRun ==
    /\ InitShared
    /\ homeVer = "v1"
    /\ baseJsIn = BrokenJs
    /\ built = NotBuilt
    /\ adaptive = <<>>
    /\ maxBr = -1
    /\ InitDecIdle
    /\ InitPlIdle
    /\ srIn = NoIn
    /\ srOut = NotRun
    /\ sgIn = NoIn
    /\ sgOut = NotRun
    /\ rnUrl \in UrlStrings
    /\ rnApi \in ApiValues
    /\ rnPc = "start"
    /\ rnReqs = <<>>
    /\ rnInfo = "none"
    /\ rnMedia = NoMedia
    /\ rnRet = [err |-> Nil, resp |-> NilResponse]

RunReturn(err, resp) ==
    /\ rnPc' = "done"
    /\ rnRet' = [err |-> err, resp |-> resp]

\* lines 200-203
RunValidate ==
    /\ rnPc = "start"
    /\ IF rnUrl = <<>> \/ ~MatchString(rnUrl)
       THEN RunReturn(ErrInvalidUrl, NilResponse)
       ELSE rnPc' = "info" /\ UNCHANGED rnRet
    /\ UNCHANGED <<rnUrl, rnApi, rnReqs, rnInfo, rnMedia>>
    /\ UNCHANGED <<mainVars, srIn, srOut, sgIn, sgOut>>

\* lines 205-208 with CobaltServerInfo: when http.NewRequest fails, req is
\* nil and line 57 dereferences it before the error is looked at.
RunServerInfo ==
    /\ rnPc = "info"
    /\ IF rnApi = "unparsable"
       THEN /\ rnPc' = "panic"
            /\ rnInfo' = "panic"
            /\ UNCHANGED <<rnReqs, rnRet>>
       ELSE \E x \in Exchanges :
               /\ rnReqs' = Append(rnReqs, GetServerInfo)
               /\ rnInfo' = x
               /\ IF x # "ok"
                  THEN RunReturn(ErrNoContact, NilResponse)
                  ELSE rnPc' = "post" /\ UNCHANGED rnRet
    /\ UNCHANGED <<rnUrl, rnApi, rnMedia>>
    /\ UNCHANGED <<mainVars, srIn, srOut, sgIn, sgOut>>

\* lines 259-265
CollectURLs(media) ==
    IF media.Status = "picker" THEN media.URLs \o media.Picker
    ELSE IF media.Status = "stream" THEN Append(media.URLs, media.URL)
    ELSE media.URLs

\* lines 210-272
RunPost ==
    /\ rnPc = "post"
    /\ rnReqs' = Append(rnReqs, PostApiJson)
    /\ \E x \in Exchanges :
          IF x # "ok"
          THEN /\ RunReturn(ErrExchange, NilResponse)
               /\ UNCHANGED rnMedia
          ELSE \E media \in Medias :
                  /\ rnMedia' = media
                  /\ IF media.Status = "error" \/ media.Status = "rate-limit"
                     THEN RunReturn(ErrCobalt, NilResponse)
                     ELSE RunReturn(Nil, [Status |-> media.Status,
                                          URL |-> media.URL,
                                          Text |-> "ok",
                                          URLs |-> CollectURLs(media)])
    /\ UNCHANGED <<rnUrl, rnApi, rnInfo>>
    /\ UNCHANGED <<mainVars, srIn, srOut, sgIn, sgOut>>

NextRun ==
    \/ RunValidate
    \/ RunServerInfo
    \/ RunPost

SpecRun == InitRun /\ [][NextRun]_vars

\* a URL holds no space character
HasSpace(u) == \E i \in 1..Len(u) : u[i] = " "

Rejected ==
    /\ rnPc = "done"
    /\ rnRet = [err |-> ErrInvalidUrl, resp |-> NilResponse]
    /\ rnReqs = <<>>

\* C30: once validation has run, an empty URL or one that is no URL (it
\* holds a space) has been rejected with an error and no request; the
\* requests sent are the server-info GET and then the POST, the POST only
\* after a successful check; a failed check has ended the call with an
\* error; a response whose status is "error" or "rate-limit" has ended it
\* with an error and a nil response.
C30_RunGuards ==
    /\ (rnPc \notin {"idle", "start"} /\ (rnUrl = <<>> \/ HasSpace(rnUrl)))
          => Rejected
    /\ rnReqs \in {<<>>, <<GetServerInfo>>, <<GetServerInfo, PostApiJson>>}
    /\ Len(rnReqs) = 2 => rnInfo = "ok"
    /\ rnInfo \notin {"none", "ok"} =>
          /\ rnPc = "done"
          /\ rnRet.err # Nil
          /\ rnRet.resp = NilResponse
          /\ Len(rnReqs) <= 1
    /\ (rnPc = "done" /\ rnMedia.Status \in {"error", "rate-limit"}) =>
          /\ rnRet.err # Nil
          /\ rnRet.resp = NilResponse

====
